---- MODULE Spec2Model ----
(***************************************************************************)
(* Model of the PDF ingestion pipeline of src/src/pdf_processor.py:        *)
(* PDFProcessor.process_directory walks the PDF files of a directory,      *)
(* process_pdf extracts each page, chunks its text, batches the chunk      *)
(* records into the backend and finally writes a backup snapshot.          *)
(*                                                                         *)
(* Strings are kept run-length encoded: a string is a sequence of runs     *)
(* [ch, n], n >= 1 copies of the character ch, no two neighbouring runs    *)
(* with the same ch.  len(), split(), strip() and ' '.join() are computed  *)
(* on that representation, so the 5000-character chunk size of the code    *)
(* is kept as it is.                                                       *)
(***************************************************************************)
EXTENDS Integers, Sequences, FiniteSets, TLC

\* Bounds of the model.
MaxFiles == 2
MaxPages == 2
MaxBatchSize == 2
\* Bounds of the _chunk_text calls: words per text, characters per word,
\* chunk_size.
MaxWords == 3
MaxWordLen == 4
MaxChunkSize == 5

\* def _chunk_text(self, text, chunk_size: int = 5000)
DefaultChunkSize == 5000
\* .with_limit(10000) of the backup query
BackupQueryLimit == 10000

VARIABLES
    pdf_files,    \* process_directory: list(directory.glob("*.pdf")), file names
    batch_size,   \* self.batch_size
    db,           \* the backend's Document collection, in insertion order
    backup_dir,   \* the files of self.backup_dir written so far
    pc,           \* control point: "dir", "loop", "page", "chunk", "backup", "file_end"
    file_idx,     \* number of files the directory loop has taken so far
    pages,        \* process_pdf: pdf_reader.pages, the text of each page
    page_num,     \* process_pdf: page_num (0-based, as in the code)
    chunks,       \* process_pdf: chunks of the current page
    chunk_num,    \* process_pdf: chunk_num (0-based, as in the code)
    batch,        \* process_pdf: batch
    status,       \* outcome of the current process_pdf call
    result,       \* outcome of process_directory: "running", "returned" or the exception raised
    backup_ret,   \* return value of the last _create_backup call
    flushes,      \* history: the _process_batch calls of the current file: [batch, ok, at]
    made,         \* history: the records built by the current file, in order
    db0,          \* history: Len(db) when the current file was opened
    extracted,    \* history: page numbers (1-based) extract_text was called on
    chunked,      \* history: page numbers (1-based) _chunk_text was called on
    failed_pages, \* history: page numbers (1-based) whose extract_text raised
    invoked,      \* history: indices of the files process_pdf was called on
    failures,     \* history: indices of the files that met a non-cancellation failure
    snapshots,    \* history: the _create_backup calls of the current file, counted
    interrupt,    \* history: whether the interrupt has arrived, and the state it arrived in
    call_words,   \* _chunk_text call: the words the text was written from
    call_text,    \* _chunk_text call: text
    max_size,     \* _chunk_text call: chunk_size
    segments,     \* _chunk_text call: the list returned
    chunk_called, \* _chunk_text call: the call has returned
    op,           \* SearchEngine call: "search", "get_document_count" or "none"
    query,        \* search call: query
    limit,        \* search call: limit
    min_score,    \* search call: min_score, in units of 0.00001
    backend_response, \* SearchEngine call: what the backend's .do() does
    search_ret,   \* search call: how the call ended, and the list returned
    count_ret     \* get_document_count call: how the call ended, and the value returned

vars == <<pdf_files, batch_size, db, backup_dir, pc, file_idx, pages, page_num,
          chunks, chunk_num, batch, status, result, backup_ret, flushes, made,
          db0, extracted, chunked, failed_pages, invoked, failures, interrupt,
          snapshots, call_words, call_text, max_size, segments, chunk_called,
          op, query, limit, min_score, backend_response, search_ret, count_ret>>

frame == <<pages, page_num, chunks, chunk_num, batch>>
hist == <<flushes, made, db0, extracted, chunked, failed_pages>>
walkvars == <<pdf_files, batch_size, db, backup_dir, pc, file_idx, pages, page_num,
              chunks, chunk_num, batch, status, result, backup_ret, flushes, made,
              db0, extracted, chunked, failed_pages, invoked, failures, interrupt,
              snapshots>>
chunkvars == <<call_words, call_text, max_size, segments, chunk_called>>
searchvars == <<op, query, limit, min_score, backend_response, search_ret, count_ret>>
fnvars == <<chunkvars, searchvars>>

----------------------------------------------------------------------------
\* Strings

Run(c, k) == [ch |-> c, n |-> k]

RECURSIVE str_len(_)
\* len(s)
str_len(s) == IF s = <<>> THEN 0 ELSE s[1].n + str_len(Tail(s))

RECURSIVE lstrip(_)
lstrip(s) == IF s # <<>> /\ s[1].ch = " " THEN lstrip(Tail(s)) ELSE s

RECURSIVE rstrip(_)
rstrip(s) ==
    IF s # <<>> /\ s[Len(s)].ch = " " THEN rstrip(SubSeq(s, 1, Len(s) - 1)) ELSE s

\* s.strip()
strip(s) == rstrip(lstrip(s))

RECURSIVE split_from(_, _, _, _)
split_from(text, i, cur, words) ==
    IF i > Len(text)
    THEN IF cur = <<>> THEN words ELSE Append(words, cur)
    ELSE IF text[i].ch = " "
         THEN split_from(text, i + 1, <<>>,
                         IF cur = <<>> THEN words ELSE Append(words, cur))
         ELSE split_from(text, i + 1, Append(cur, text[i]), words)

\* text.split(): the maximal runs of non-whitespace characters
split(text) == split_from(text, 1, <<>>, <<>>)

RECURSIVE join(_)
\* ' '.join(words)
join(words) ==
    IF words = <<>> THEN <<>>
    ELSE IF Len(words) = 1 THEN words[1]
    ELSE words[1] \o <<Run(" ", 1)>> \o join(Tail(words))

RECURSIVE chunk_loop_DropsTrigger(_, _, _, _, _, _)
\* current_chunk = [] in place of current_chunk = [word]: the word that
\* closes a chunk is lost.
chunk_loop_DropsTrigger(words, i, out, current_chunk, current_size, chunk_size) ==
    IF i > Len(words)
    THEN IF current_chunk # <<>> THEN Append(out, join(current_chunk)) ELSE out
    ELSE LET word == words[i]
             size == current_size + str_len(word) + 1
         IN  IF size > chunk_size
             THEN chunk_loop_DropsTrigger(words, i + 1,
                             IF current_chunk # <<>>
                             THEN Append(out, join(current_chunk)) ELSE out,
                             <<>>, 0, chunk_size)
             ELSE chunk_loop_DropsTrigger(words, i + 1, out,
                             Append(current_chunk, word), size, chunk_size)

RECURSIVE chunk_loop_GreaterEqual(_, _, _, _, _, _)
\* if current_size >= chunk_size in place of >.
chunk_loop_GreaterEqual(words, i, out, current_chunk, current_size, chunk_size) ==
    IF i > Len(words)
    THEN IF current_chunk # <<>> THEN Append(out, join(current_chunk)) ELSE out
    ELSE LET word == words[i]
             size == current_size + str_len(word) + 1
         IN  IF size >= chunk_size
             THEN chunk_loop_GreaterEqual(words, i + 1,
                             IF current_chunk # <<>>
                             THEN Append(out, join(current_chunk)) ELSE out,
                             <<word>>, str_len(word), chunk_size)
             ELSE chunk_loop_GreaterEqual(words, i + 1, out,
                             Append(current_chunk, word), size, chunk_size)

RECURSIVE chunk_loop_NoGuard(_, _, _, _, _, _)
\* chunks.append(' '.join(current_chunk)) without the `if current_chunk:`
\* tests.
chunk_loop_NoGuard(words, i, out, current_chunk, current_size, chunk_size) ==
    IF i > Len(words)
    THEN Append(out, join(current_chunk))
    ELSE LET word == words[i]
             size == current_size + str_len(word) + 1
         IN  IF size > chunk_size
             THEN chunk_loop_NoGuard(words, i + 1,
                             Append(out, join(current_chunk)),
                             <<word>>, str_len(word), chunk_size)
             ELSE chunk_loop_NoGuard(words, i + 1, out,
                             Append(current_chunk, word), size, chunk_size)

RECURSIVE chunk_loop(_, _, _, _, _, _)
chunk_loop(words, i, out, current_chunk, current_size, chunk_size) ==
    IF i > Len(words)
    THEN IF current_chunk # <<>> THEN Append(out, join(current_chunk)) ELSE out
    ELSE LET word == words[i]
             size == current_size + str_len(word) + 1
         IN  IF size > chunk_size
             THEN chunk_loop(words, i + 1,
                             IF current_chunk # <<>>
                             THEN Append(out, join(current_chunk)) ELSE out,
                             <<word>>, str_len(word), chunk_size)
             ELSE chunk_loop(words, i + 1, out, Append(current_chunk, word),
                             size, chunk_size)

\* PDFProcessor._chunk_text
chunk_text(text, chunk_size) == chunk_loop(split(text), 1, <<>>, <<>>, 0, chunk_size)

----------------------------------------------------------------------------
\* Inputs

FileName(k) == ToString(k) \o ".pdf"

\* The page texts a PDF may hold: empty, whitespace only, one short word
\* (one chunk), two long words (two chunks).
PageTexts ==
    { <<>>,
      <<Run(" ", 2)>>,
      <<Run("a", 3)>>,
      <<Run("a", 3000), Run(" ", 1), Run("b", 3000)>> }

PageLists == UNION { [1..n -> PageTexts] : n \in 0..MaxPages }

----------------------------------------------------------------------------
\* Backend

Document(content, page_number, file_name, chunk_number) ==
    [content |-> content, page_number |-> page_number,
     file_name |-> file_name, chunk_number |-> chunk_number]

\* A record left by an earlier run of the program on the first file.
ExistingRecord == Document(<<Run("a", 3)>>, 1, FileName(1), 1)

RECURSIVE select_file(_, _, _)
select_file(d, i, name) ==
    IF i > Len(d) THEN <<>>
    ELSE (IF d[i].file_name = name
          THEN <<[content |-> d[i].content, page_number |-> d[i].page_number,
                  file_name |-> d[i].file_name, chunk_number |-> d[i].chunk_number,
                  id |-> i]>>
          ELSE <<>>) \o select_file(d, i + 1, name)

\* The Get query without its where filter: every record, with its id.
query_file_NoFilter(d, name) ==
    [i \in 1..Len(d) |->
        [content |-> d[i].content, page_number |-> d[i].page_number,
         file_name |-> d[i].file_name, chunk_number |-> d[i].chunk_number,
         id |-> i]]

\* The Get query of _create_backup: the records of one file, with their ids,
\* cut at the query limit.
query_file(d, name) ==
    LET all == select_file(d, 1, name)
    IN  IF Len(all) > BackupQueryLimit THEN SubSeq(all, 1, BackupQueryLimit) ELSE all

----------------------------------------------------------------------------
\* Exceptions and their handlers

\* A bare `except:` in place of `except Exception`.
CatchesException_Bare(e) == TRUE

\* `except ExtractionError` in place of `except Exception`.
CatchesException_ExtractionOnly(e) == e = "ExtractionError"

\* `except BackendWriteError` in place of `except Exception`.
CatchesException_BackendOnly(e) == e = "BackendWriteError"

\* `except Exception`: every exception but the BaseException KeyboardInterrupt
CatchesException(e) == e # "KeyboardInterrupt"

\* An exception leaves process_directory (the handlers at lines 204-209 log
\* and re-raise): the walk ends where it was raised.
Propagate(e) ==
    /\ result' = e
    /\ UNCHANGED <<pc, page_num, chunks, chunk_num, status>>

\* The handlers around the process_pdf call of the directory loop:
\* KeyboardInterrupt is re-raised, any other Exception is logged and the loop
\* continues with the next file.
DirHandler(e) ==
    IF e = "KeyboardInterrupt" THEN Propagate(e)
    ELSE IF CatchesException(e)
         THEN /\ pc' = "file_end"
              /\ status' = "failed"
              /\ UNCHANGED <<page_num, chunks, chunk_num, result>>
         ELSE Propagate(e)

\* An outer handler after which process_pdf goes on to its snapshot.
FileHandler_Continue(e) ==
    IF CatchesException(e)
    THEN /\ pc' = "backup"
         /\ status' = "failed"
         /\ UNCHANGED <<page_num, chunks, chunk_num, result>>
    ELSE DirHandler(e)

\* The outer handler of process_pdf: logs, and process_pdf returns normally.
FileHandler(e) ==
    IF CatchesException(e)
    THEN /\ pc' = "file_end"
         /\ status' = "failed"
         /\ UNCHANGED <<page_num, chunks, chunk_num, result>>
    ELSE DirHandler(e)

\* The per-page handler of process_pdf: logs and continues with the next page.
PageHandler(e) ==
    IF CatchesException(e)
    THEN /\ pc' = "page"
         /\ page_num' = page_num + 1
         /\ chunks' = <<>>
         /\ chunk_num' = 0
         /\ UNCHANGED <<status, result>>
    ELSE FileHandler(e)

----------------------------------------------------------------------------
\* process_directory and process_pdf

\* No interrupt has arrived yet.
NoInterrupt ==
    [arrived |-> FALSE, pc |-> "dir", page_num |-> 0, db |-> <<>>, invoked |-> <<>>,
     flushes |-> <<>>, extracted |-> <<>>, backup_dir |-> <<>>]

\* No call of _chunk_text is under way.
NoChunkCall ==
    /\ call_words = <<>>
    /\ call_text = <<>>
    /\ max_size = DefaultChunkSize
    /\ segments = <<>>
    /\ chunk_called = FALSE

\* A call that has not returned.
NotCalled == [called |-> FALSE, raised |-> "None"]

\* No backend answer is awaited.
NoResponse == [raises |-> "None", shape |-> "none"]

\* No call of the SearchEngine is under way.
NoSearchCall ==
    /\ op = "none"
    /\ query = ""
    /\ limit = 0
    /\ min_score = 0
    /\ backend_response = NoResponse
    /\ search_ret = NotCalled
    /\ count_ret = NotCalled

\* process_directory has not begun.
WalkStart ==
    /\ backup_dir = <<>>
    /\ pc = "dir"
    /\ file_idx = 0
    /\ pages = <<>>
    /\ page_num = 0
    /\ chunks = <<>>
    /\ chunk_num = 0
    /\ batch = <<>>
    /\ status = "none"
    /\ result = "running"
    /\ backup_ret = "unset"
    /\ flushes = <<>>
    /\ made = <<>>
    /\ db0 = 0
    /\ extracted = <<>>
    /\ chunked = <<>>
    /\ failed_pages = {}
    /\ invoked = <<>>
    /\ failures = {}
    /\ interrupt = NoInterrupt
    /\ snapshots = 0

Init ==
    /\ NoChunkCall
    /\ NoSearchCall
    /\ \E n \in 0..MaxFiles : pdf_files = [k \in 1..n |-> FileName(k)]
    /\ batch_size \in 1..MaxBatchSize
    /\ db \in {<<>>, <<ExistingRecord>>}
    /\ WalkStart

\* pdf_files = list(directory.glob("*.pdf")); return when there is none
ScanDirectory ==
    /\ result = "running" /\ pc = "dir"
    /\ IF pdf_files = <<>>
       THEN result' = "returned" /\ pc' = pc
       ELSE pc' = "loop" /\ result' = result
    /\ UNCHANGED <<fnvars, snapshots, interrupt, pdf_files, batch_size, db, backup_dir, file_idx, frame, status,
                   backup_ret, hist, invoked, failures>>

\* The directory cannot be listed: logged and re-raised (lines 207-209).
ScanDirectoryFails ==
    /\ result = "running" /\ pc = "dir"
    /\ result' = "OSError"
    /\ UNCHANGED <<fnvars, snapshots, interrupt, pdf_files, batch_size, db, backup_dir, pc, file_idx, frame, status,
                   backup_ret, hist, invoked, failures>>

\* The loop is exhausted: process_directory returns.
FinishDirectory ==
    /\ result = "running" /\ pc = "loop" /\ file_idx = Len(pdf_files)
    /\ result' = "returned"
    /\ UNCHANGED <<fnvars, snapshots, interrupt, pdf_files, batch_size, db, backup_dir, pc, file_idx, frame, status,
                   backup_ret, hist, invoked, failures>>

\* process_pdf(pdf_file): open, PdfReader, batch = []
OpenFile ==
    /\ result = "running" /\ pc = "loop" /\ file_idx < Len(pdf_files)
    /\ file_idx' = file_idx + 1
    /\ invoked' = Append(invoked, file_idx + 1)
    /\ \E ps \in PageLists : pages' = ps
    /\ pc' = "page"
    /\ page_num' = 0
    /\ chunks' = <<>>
    /\ chunk_num' = 0
    /\ batch' = <<>>
    /\ status' = "processing"
    /\ backup_ret' = "unset"
    /\ flushes' = <<>>
    /\ made' = <<>>
    /\ db0' = Len(db)
    /\ extracted' = <<>>
    /\ chunked' = <<>>
    /\ failed_pages' = {}
    /\ UNCHANGED <<fnvars, snapshots, interrupt, pdf_files, batch_size, db, backup_dir, result, failures>>

\* open() or PdfReader() raises: the file is unreadable or corrupt.
OpenFileFails ==
    /\ result = "running" /\ pc = "loop" /\ file_idx < Len(pdf_files)
    /\ file_idx' = file_idx + 1
    /\ invoked' = Append(invoked, file_idx + 1)
    /\ failures' = failures \cup {file_idx + 1}
    /\ pages' = <<>>
    /\ batch' = <<>>
    /\ backup_ret' = "unset"
    /\ flushes' = <<>>
    /\ made' = <<>>
    /\ db0' = Len(db)
    /\ extracted' = <<>>
    /\ chunked' = <<>>
    /\ failed_pages' = {}
    /\ FileHandler("ExtractionError")
    /\ UNCHANGED <<fnvars, snapshots, interrupt, pdf_files, batch_size, db, backup_dir>>

\* "page_number": page_num, the 0-based loop index.
PageNumber_ZeroBased(n) == n

\* page_number of a record: "page_number": page_num + 1
PageNumber(n) == n + 1

\* One iteration of the page loop up to the chunk loop: extract_text, the
\* blank-page test, _chunk_text.
ExtractPage ==
    /\ result = "running" /\ pc = "page" /\ page_num < Len(pages)
    /\ extracted' = Append(extracted, page_num + 1)
    /\ LET text == pages[page_num + 1]
           cs == chunk_text(text, DefaultChunkSize)
       IN  IF text = <<>> \/ strip(text) = <<>>
           THEN /\ page_num' = page_num + 1
                /\ UNCHANGED <<pc, chunks, chunk_num, chunked>>
           ELSE /\ chunked' = Append(chunked, page_num + 1)
                /\ IF cs = <<>>
                   THEN /\ page_num' = page_num + 1
                        /\ UNCHANGED <<pc, chunks, chunk_num>>
                   ELSE /\ pc' = "chunk"
                        /\ chunks' = cs
                        /\ chunk_num' = 0
                        /\ page_num' = page_num
    /\ UNCHANGED <<fnvars, snapshots, interrupt, pdf_files, batch_size, db, backup_dir, file_idx, pages, batch,
                   status, result, backup_ret, flushes, made, db0, failed_pages,
                   invoked, failures>>

\* pdf_reader.pages[page_num] or extract_text raises.
ExtractPageFails ==
    /\ result = "running" /\ pc = "page" /\ page_num < Len(pages)
    /\ extracted' = Append(extracted, page_num + 1)
    /\ failed_pages' = failed_pages \cup {page_num + 1}
    /\ failures' = failures \cup {file_idx}
    /\ PageHandler("ExtractionError")
    /\ UNCHANGED <<fnvars, snapshots, interrupt, pdf_files, batch_size, db, backup_dir, file_idx, pages, batch,
                   backup_ret, flushes, made, db0, chunked, invoked>>

\* A _process_batch call as the history keeps it: the batch handed over,
\* whether the backend took it, and the page (1-based) the call was made in
\* (the number of pages plus one for the call after the page loop).
Flush(b, ok, at) == [batch |-> b, ok |-> ok, at |-> at]

\* if len(batch) > self.batch_size
BatchFull_Strict(b, size) == Len(b) > size

\* if len(batch) >= self.batch_size
BatchFull(b, size) == Len(b) >= size

\* "chunk_number": chunk_num, the 0-based index of enumerate.
ChunkNumber_ZeroBased(n) == n

\* chunk_number of a record: "chunk_number": chunk_num + 1
ChunkNumber(n) == n + 1

\* "file_name": str(pdf_path), the path instead of the name.
Properties_FullPath ==
    Document(chunks[chunk_num + 1], PageNumber(page_num),
             "pdfs/" \o pdf_files[file_idx], ChunkNumber(chunk_num))

\* The record built for chunk number chunk_num of the current page.
Properties ==
    Document(chunks[chunk_num + 1], PageNumber(page_num),
             pdf_files[file_idx], ChunkNumber(chunk_num))

\* The end of one iteration of the chunk loop.
NextChunk ==
    IF chunk_num + 1 = Len(chunks)
    THEN /\ pc' = "page"
         /\ page_num' = page_num + 1
         /\ chunks' = <<>>
         /\ chunk_num' = 0
    ELSE /\ chunk_num' = chunk_num + 1
         /\ UNCHANGED <<pc, page_num, chunks>>

\* The batch goes on as it is after its insert.
BatchAfterFlush_Kept(b) == b

\* batch = [] after self._process_batch(batch)
BatchAfterFlush(b) == <<>>

\* One iteration of the chunk loop; _process_batch, when called, succeeds.
AddChunk ==
    /\ result = "running" /\ pc = "chunk" /\ chunk_num < Len(chunks)
    /\ IF strip(chunks[chunk_num + 1]) = <<>>
       THEN UNCHANGED <<batch, db, flushes, made>>
       ELSE LET b == Append(batch, Properties)
            IN  /\ made' = Append(made, Properties)
                /\ IF BatchFull(b, batch_size)
                   THEN /\ db' = db \o b
                        /\ flushes' = Append(flushes, Flush(b, TRUE, page_num + 1))
                        /\ batch' = BatchAfterFlush(b)
                   ELSE /\ batch' = b
                        /\ UNCHANGED <<db, flushes>>
    /\ NextChunk
    /\ UNCHANGED <<fnvars, snapshots, interrupt, pdf_files, batch_size, backup_dir, file_idx, pages, status, result,
                   backup_ret, db0, extracted, chunked, failed_pages, invoked, failures>>

\* One iteration of the chunk loop in which _process_batch raises: the
\* backend commits nothing, batch = [] is not reached, and the exception
\* reaches the per-page handler.
AddChunkFlushFails ==
    /\ result = "running" /\ pc = "chunk" /\ chunk_num < Len(chunks)
    /\ strip(chunks[chunk_num + 1]) # <<>>
    /\ LET b == Append(batch, Properties)
       IN  /\ BatchFull(b, batch_size)
           /\ made' = Append(made, Properties)
           /\ batch' = b
           /\ flushes' = Append(flushes, Flush(b, FALSE, page_num + 1))
    /\ failures' = failures \cup {file_idx}
    /\ PageHandler("BackendWriteError")
    /\ UNCHANGED <<fnvars, snapshots, interrupt, pdf_files, batch_size, db, backup_dir, file_idx, pages, backup_ret,
                   db0, extracted, chunked, failed_pages, invoked>>

\* After the page loop: if batch: self._process_batch(batch), which succeeds.
EndOfFile ==
    /\ result = "running" /\ pc = "page" /\ page_num = Len(pages)
    /\ IF batch # <<>>
       THEN /\ db' = db \o batch
            /\ flushes' = Append(flushes, Flush(batch, TRUE, Len(pages) + 1))
       ELSE UNCHANGED <<db, flushes>>
    /\ pc' = "backup"
    /\ UNCHANGED <<fnvars, snapshots, interrupt, pdf_files, batch_size, backup_dir, file_idx, frame, status, result,
                   backup_ret, made, db0, extracted, chunked, failed_pages, invoked,
                   failures>>

\* The end-of-file _process_batch raises: the outer handler of process_pdf.
EndOfFileFlushFails ==
    /\ result = "running" /\ pc = "page" /\ page_num = Len(pages)
    /\ batch # <<>>
    /\ flushes' = Append(flushes, Flush(batch, FALSE, Len(pages) + 1))
    /\ failures' = failures \cup {file_idx}
    /\ FileHandler("BackendWriteError")
    /\ UNCHANGED <<fnvars, snapshots, interrupt, pdf_files, batch_size, db, backup_dir, file_idx, pages, batch,
                   backup_ret, made, db0, extracted, chunked, failed_pages, invoked>>

----------------------------------------------------------------------------
\* _create_backup

\* backup_data of _create_backup, as far as it was written: metadata.filename,
\* metadata.total_chunks and the chunks array (backup_time is not modelled).
BackupFile(filename, documents, written, complete) ==
    [filename |-> filename,
     total_chunks |-> Len(documents),
     chunks |-> SubSeq(documents, 1, written),
     complete |-> complete]

\* How far json.dump can get before a write error: any proper prefix of the
\* chunks array (an empty array leaves the prefix of length 0).
PartialWrites(documents) ==
    IF documents = <<>> THEN {0} ELSE 0..(Len(documents) - 1)

\* self._create_backup(pdf_path.name), then process_pdf logs success and
\* returns.  response is what the Get query does: "raises", "no_list" (a
\* response without data.Get.Document) or "list"; fs is what the file system
\* does: "open_fails", "write_fails" or "ok".
CreateBackup ==
    /\ result = "running" /\ pc = "backup"
    /\ LET filename == pdf_files[file_idx]
           documents == query_file(db, filename)
       IN  \E response \in {"raises", "no_list", "list"} :
           \E fs \in {"open_fails", "write_fails", "ok"} :
              \/ /\ response = "raises" /\ fs = "ok"
                 /\ backup_ret' = "False"
                 /\ UNCHANGED backup_dir
              \/ /\ response = "no_list" /\ fs = "ok"
                 /\ backup_ret' = "None"
                 /\ UNCHANGED backup_dir
              \/ /\ response = "list" /\ fs = "open_fails"
                 /\ backup_ret' = "False"
                 /\ UNCHANGED backup_dir
              \/ /\ response = "list" /\ fs = "write_fails"
                 /\ backup_ret' = "False"
                 /\ \E k \in PartialWrites(documents) :
                       backup_dir' =
                           Append(backup_dir, BackupFile(filename, documents, k, FALSE))
              \/ /\ response = "list" /\ fs = "ok"
                 /\ backup_ret' = "True"
                 /\ backup_dir' =
                        Append(backup_dir,
                               BackupFile(filename, documents, Len(documents), TRUE))
    /\ pc' = "file_end"
    /\ status' = "done"
    /\ snapshots' = snapshots + 1
    /\ UNCHANGED <<fnvars, interrupt, pdf_files, batch_size, db, file_idx, frame, result, hist, invoked,
                   failures>>

\* process_pdf has returned: finally: pbar.update(1), and the loop goes on.
\* The locals of process_pdf are gone.
NextFile ==
    /\ result = "running" /\ pc = "file_end"
    /\ pc' = "loop"
    /\ pages' = <<>>
    /\ page_num' = 0
    /\ chunks' = <<>>
    /\ chunk_num' = 0
    /\ batch' = <<>>
    /\ status' = "none"
    /\ backup_ret' = "unset"
    /\ flushes' = <<>>
    /\ made' = <<>>
    /\ db0' = 0
    /\ extracted' = <<>>
    /\ chunked' = <<>>
    /\ failed_pages' = {}
    /\ snapshots' = 0
    /\ UNCHANGED <<fnvars, interrupt, pdf_files, batch_size, db, backup_dir, file_idx, result, invoked,
                   failures>>

\* The user interrupts (SIGINT): KeyboardInterrupt is raised at the point the
\* program has reached, inside the page loop, elsewhere in process_pdf, or in
\* process_directory itself.
Interrupt ==
    /\ result = "running"
    /\ interrupt' = [arrived |-> TRUE, pc |-> pc, page_num |-> page_num, db |-> db, invoked |-> invoked,
                     flushes |-> flushes, extracted |-> extracted,
                     backup_dir |-> backup_dir]
    /\ IF pc = "chunk" \/ (pc = "page" /\ page_num < Len(pages))
       THEN PageHandler("KeyboardInterrupt")
       ELSE IF pc \in {"page", "backup"}
            THEN FileHandler("KeyboardInterrupt")
            ELSE DirHandler("KeyboardInterrupt")
    /\ UNCHANGED <<fnvars, snapshots, pdf_files, batch_size, db, backup_dir, file_idx, pages, batch,
                   backup_ret, hist, invoked, failures>>

Next ==
    \/ ScanDirectory
    \/ ScanDirectoryFails
    \/ FinishDirectory
    \/ OpenFile
    \/ OpenFileFails
    \/ ExtractPage
    \/ ExtractPageFails
    \/ AddChunk
    \/ AddChunkFlushFails
    \/ EndOfFile
    \/ EndOfFileFlushFails
    \/ CreateBackup
    \/ NextFile
    \/ Interrupt

Spec == Init /\ [][Next]_vars

----------------------------------------------------------------------------
\* Properties

\* A _process_batch call of the current file has failed.
FlushFailed == \E i \in 1..Len(flushes) : ~flushes[i].ok

\* The records the current process_pdf call has committed to the backend.
Committed == SubSeq(db, db0 + 1, Len(db))

\* process_pdf is inside its page loop.
InPages == pc \in {"page", "chunk"}

IsPrefix(s, t) == Len(s) <= Len(t) /\ SubSeq(t, 1, Len(s)) = s

IsBlank(text) == text = <<>> \/ strip(text) = <<>>

\* C1: once a batch insert of a file has failed, in a page or after the page
\* loop, the processing of that file ends there: the failed insert is the
\* last insert attempted for the file, and no page after the one it failed in
\* is chunked.
C1_FailedInsertEndsFile ==
    \A i \in 1..Len(flushes) :
        ~flushes[i].ok =>
            /\ i = Len(flushes)
            /\ \A j \in 1..Len(chunked) : chunked[j] <= flushes[i].at

\* C2: in a file without backend failure, inside the page loop the pending
\* batch is always shorter than batch_size and every insert made so far
\* carried exactly batch_size records, one insert per batch_size records
\* built; once the page loop is left, the remaining 1..batch_size-1 records,
\* if any, went out in exactly one more insert; no insert is empty.
C2_FlushExactlyAtBatchSize ==
    (status # "none" /\ ~FlushFailed) =>
        LET n == Len(made)
            q == n \div batch_size
            r == n % batch_size
        IN  /\ \A i \in 1..Len(flushes) :
                   flushes[i].ok /\ Len(flushes[i].batch) > 0
            /\ InPages =>
                   /\ Len(batch) < batch_size
                   /\ Len(batch) = r
                   /\ Len(flushes) = q
                   /\ \A i \in 1..q : Len(flushes[i].batch) = batch_size
            /\ pc = "backup" =>
                   /\ Len(flushes) = q + (IF r > 0 THEN 1 ELSE 0)
                   /\ \A i \in 1..q : Len(flushes[i].batch) = batch_size
                   /\ r > 0 => /\ Len(flushes[q + 1].batch) = r
                               /\ r \in 1..(batch_size - 1)
                               /\ flushes[q + 1].at = Len(pages) + 1

\* C2 witness: a file whose inserts were one full batch and then a final
\* partial batch.
C2_Witness ==
    /\ pc = "backup" /\ ~FlushFailed
    /\ Len(flushes) = 2
    /\ Len(flushes[1].batch) = batch_size
    /\ Len(flushes[2].batch) < batch_size
    /\ batch_size > 1

\* C3: inside the page loop the pending batch holds at most batch_size
\* records, also after a failed insert, and never still holds a batch that
\* was handed to an insert.
C3_BatchBoundedAndDiscarded ==
    InPages =>
        /\ Len(batch) <= batch_size
        /\ \A i \in 1..Len(flushes) : ~IsPrefix(flushes[i].batch, batch)

\* C4: once the interrupt has arrived, process_directory has ended with
\* KeyboardInterrupt, no further file has been opened, no batch insert has
\* been made, and the backend and the backup directory are as they were.
C4_InterruptAbortsWalk ==
    interrupt.arrived =>
        /\ result = "KeyboardInterrupt"
        /\ invoked = interrupt.invoked
        /\ flushes = interrupt.flushes
        /\ db = interrupt.db
        /\ backup_dir = interrupt.backup_dir

\* C4 witness: the interrupt arrived in the first of two files, after that
\* file had committed records.
C4_Witness ==
    /\ interrupt.arrived
    /\ result = "KeyboardInterrupt"
    /\ Len(pdf_files) = 2 /\ file_idx = 1
    /\ Committed # <<>>

\* C5 as stated: the walk ends by an interrupt only between files, never
\* with a file left in its page loop or before its snapshot.
C5_InterruptOnlyBetweenFiles ==
    result = "KeyboardInterrupt" => pc \notin {"page", "chunk", "backup"}

\* C5 amended: an interrupt that arrives while a file is being processed
\* stops the file at that point: the walk has ended, process_pdf is where it
\* was, no further page has been extracted, no insert made, and the snapshot
\* has not run.
C5_InterruptStopsFile ==
    (interrupt.arrived /\ interrupt.pc \in {"page", "chunk", "backup"}) =>
        /\ result = "KeyboardInterrupt"
        /\ pc = interrupt.pc
        /\ page_num = interrupt.page_num
        /\ extracted = interrupt.extracted
        /\ flushes = interrupt.flushes
        /\ status = "processing"
        /\ backup_ret = "unset"

\* C5 witness: the interrupt arrived inside the page loop with pages left and
\* records pending; they are never flushed and no snapshot is taken.
C5_Witness ==
    /\ result = "KeyboardInterrupt"
    /\ pc = "page" /\ page_num < Len(pages)
    /\ batch # <<>>
    /\ backup_ret = "unset"

\* C6: a walk that ended without an interrupt, after the directory was
\* listed, returned normally and called process_pdf on every file in order,
\* whatever failures the files met; and a failed file leaves the walk running.
C6_FileFailureDoesNotStopWalk ==
    /\ (result # "running" /\ ~interrupt.arrived /\ pc # "dir") =>
           /\ result = "returned"
           /\ invoked = [k \in 1..Len(pdf_files) |-> k]
    /\ (status = "failed" /\ ~interrupt.arrived) =>
           result = "running" /\ pc = "file_end"

\* C6 witness: the walk returned after the first of two files failed.
C6_Witness ==
    /\ result = "returned"
    /\ Len(pdf_files) = 2
    /\ 1 \in failures
    /\ Len(invoked) = 2

\* The records process_pdf builds for page p (1-based) of the current file.
RecordsOfPage(p) ==
    LET cs == chunk_text(pages[p], DefaultChunkSize)
    IN  [c \in 1..Len(cs) |-> Document(cs[c], p, pdf_files[file_idx], c)]

RECURSIVE RecordsFrom(_, _)
\* The records of the pages p.. of the current file that are not blank and
\* not in skip, in page order then chunk order.
RecordsFrom(p, skip) ==
    IF p > Len(pages) THEN <<>>
    ELSE (IF p \in skip \/ IsBlank(pages[p]) THEN <<>> ELSE RecordsOfPage(p))
         \o RecordsFrom(p + 1, skip)

\* C7: in a file whose only failures are failed page extractions, the file
\* is never failed and the walk goes on; when the snapshot step is reached
\* every page has been extracted in order, every other non-blank page has
\* been chunked in order, and the records committed are exactly the records
\* of the non-blank pages whose extraction did not fail.
C7_PageFailureConfined ==
    /\ (failed_pages # {} /\ ~FlushFailed /\ ~interrupt.arrived) =>
           /\ result = "running"
           /\ status \in {"processing", "done"}
    /\ (pc = "backup" /\ ~FlushFailed) =>
           /\ extracted = [p \in 1..Len(pages) |-> p]
           /\ chunked = SelectSeq(extracted,
                                  LAMBDA p : p \notin failed_pages /\ ~IsBlank(pages[p]))
           /\ Committed = RecordsFrom(1, failed_pages)

\* C7 witness: the snapshot step is reached in a two-page file whose first
\* page failed to extract and whose second page was committed.
C7_Witness ==
    /\ pc = "backup" /\ ~FlushFailed
    /\ Len(pages) = 2
    /\ failed_pages = {1}
    /\ ~IsBlank(pages[1])
    /\ Committed # <<>>
    /\ Committed = RecordsOfPage(2)

\* C8: when _create_backup has returned, its value is a boolean, and it is
\* True exactly when the backup file of this file was written in full.
C8_SnapshotReturnsBoolean ==
    (pc = "file_end" /\ status = "done") =>
        /\ backup_ret \in {"True", "False"}
        /\ backup_ret = "True" <=>
               /\ backup_dir # <<>>
               /\ backup_dir[Len(backup_dir)].filename = pdf_files[file_idx]
               /\ backup_dir[Len(backup_dir)].complete

\* C9: every file of the backup directory holds a complete snapshot.
C9_BackupAllOrNothing ==
    \A i \in 1..Len(backup_dir) :
        /\ backup_dir[i].complete
        /\ Len(backup_dir[i].chunks) = backup_dir[i].total_chunks

\* C10 as stated: the page_number values of the records the backend holds
\* for the current file form 1..m.
C10_PageNumbersContiguous ==
    status # "none" =>
        LET mine == {i \in 1..Len(db) : db[i].file_name = pdf_files[file_idx]}
            nums == {db[i].page_number : i \in mine}
        IN  nums = 1..Cardinality(nums)

\* C10 amended: the page_number of every record stored for the current file
\* is the 1-based position in the file of the page the record's text comes
\* from: it lies in 1..number of pages, that page is not blank, and the
\* record holds the chunk of that page its chunk_number names.
C10_PageNumberIsPagePosition ==
    status # "none" =>
        \A i \in 1..Len(Committed) :
            LET r == Committed[i]
            IN  /\ r.file_name = pdf_files[file_idx]
                /\ r.page_number \in 1..Len(pages)
                /\ ~IsBlank(pages[r.page_number])
                /\ LET cs == chunk_text(pages[r.page_number], DefaultChunkSize)
                   IN  /\ r.chunk_number \in 1..Len(cs)
                       /\ r.content = cs[r.chunk_number]

\* C10 witness: a file whose first page is blank has stored its second page
\* under page_number 2, so that the stored page numbers are {2}.
C10_Witness ==
    /\ pc = "backup"
    /\ Len(pages) = 2
    /\ IsBlank(pages[1])
    /\ failed_pages = {}
    /\ Committed # <<>>
    /\ \A i \in 1..Len(Committed) : Committed[i].page_number = 2

\* The chunk_number values of the records built for page p, in the order
\* the records were built.
ChunkNumbersOfPage(p) ==
    LET of_page == SelectSeq(made, LAMBDA r : r.page_number = p)
    IN  [i \in 1..Len(of_page) |-> of_page[i].chunk_number]

\* C11: the records built for each page of the current file carry the
\* chunk numbers 1, 2, ..., n in the order they were built, and a page whose
\* text is empty or whitespace only has no record.
C11_ChunkNumbersRestartPerPage ==
    status # "none" =>
        /\ \A i \in 1..Len(made) : made[i].page_number \in 1..Len(pages)
        /\ \A p \in 1..Len(pages) :
               /\ ChunkNumbersOfPage(p) = [i \in 1..Len(ChunkNumbersOfPage(p)) |-> i]
               /\ IsBlank(pages[p]) => ChunkNumbersOfPage(p) = <<>>

\* C11 witness: a two-page file whose first page gave two chunks and whose
\* second page is blank: chunk numbers 1, 2 on page 1, no record for page 2.
C11_Witness ==
    /\ pc = "backup"
    /\ Len(pages) = 2
    /\ IsBlank(pages[2])
    /\ extracted = <<1, 2>>
    /\ ChunkNumbersOfPage(1) = <<1, 2>>
    /\ ChunkNumbersOfPage(2) = <<>>
    /\ Len(Committed) = 2

\* The ids of the records of db stored under file name name.
IdsOfFile(name) == { i \in 1..Len(db) : db[i].file_name = name }

\* C17: in every snapshot written to the end, total_chunks is the number of
\* entries of chunks, and chunks is the records the backend holds under the
\* snapshot's file name, each with its id, in the backend's order.
C17_SnapshotMatchesBackend ==
    \A k \in 1..Len(backup_dir) :
        LET b == backup_dir[k]
        IN  b.complete =>
                /\ b.total_chunks = Len(b.chunks)
                /\ Len(b.chunks) = Cardinality(IdsOfFile(b.filename))
                /\ \A i \in 1..Len(b.chunks) :
                       /\ b.chunks[i].id \in IdsOfFile(b.filename)
                       /\ b.chunks[i].content = db[b.chunks[i].id].content
                       /\ b.chunks[i].page_number = db[b.chunks[i].id].page_number
                       /\ b.chunks[i].file_name = b.filename
                       /\ b.chunks[i].chunk_number = db[b.chunks[i].id].chunk_number
                /\ \A i, j \in 1..Len(b.chunks) :
                       i < j => b.chunks[i].id < b.chunks[j].id

\* C17 witness: the snapshot of the second file holds its two records, which
\* the backend stores after the records of the first file.
C17_Witness ==
    \E k \in 1..Len(backup_dir) :
        /\ backup_dir[k].complete
        /\ backup_dir[k].filename = FileName(2)
        /\ backup_dir[k].total_chunks = 2
        /\ backup_dir[k].chunks[1].id > 1

\* process_pdf has come to its snapshot step, or past it, with no failed
\* extraction, no failed insert and no interrupt.
CleanRun ==
    /\ pc \in {"backup", "file_end"}
    /\ status \in {"processing", "done"}
    /\ failed_pages = {}
    /\ ~FlushFailed
    /\ ~interrupt.arrived

\* C18: when process_pdf has run without extraction, backend or cancellation
\* failure, the records it committed are one record per chunk of each
\* non-blank page, with the chunk as content and the file's name as
\* file_name, in page order then chunk order; and no step of the program
\* changes or removes a record the backend already holds.
C18_CleanRunCommitsEveryChunk ==
    /\ [](CleanRun =>
             /\ Committed = RecordsFrom(1, {})
             /\ \A i \in 1..Len(Committed) :
                    /\ Committed[i].file_name = pdf_files[file_idx]
                    /\ \E p \in 1..Len(pages) :
                           \E c \in 1..Len(chunk_text(pages[p], DefaultChunkSize)) :
                               Committed[i].content = chunk_text(pages[p], DefaultChunkSize)[c])
    /\ [][IsPrefix(db, db')]_vars

\* C18 witness: a file of two pages was added to a backend that held a
\* record, and its three records were committed in two inserts.
C18_Witness ==
    /\ CleanRun /\ status = "done"
    /\ db0 = 1
    /\ Len(pages) = 2
    /\ Len(Committed) = 3
    /\ Len(flushes) = 2

\* Every record the current file has built is among those it committed.
NothingPending ==
    \A i \in 1..Len(made) : \E j \in 1..Len(Committed) : Committed[j] = made[i]

\* C19: in each process_pdf run the snapshot is attempted at most once; when
\* it is about to be attempted, and once it has been, every page has been
\* handled, the insert after the page loop, if there was one, succeeded and
\* took the whole pending batch, and nothing built is left uncommitted; no
\* snapshot is attempted for a file that has failed.
C19_SnapshotOnceAfterLastFlush ==
    /\ snapshots <= 1
    /\ snapshots = 1 => pc = "file_end" /\ status = "done"
    /\ status = "failed" => snapshots = 0
    /\ (pc = "backup" \/ snapshots = 1) =>
           /\ page_num = Len(pages)
           /\ extracted = [p \in 1..Len(pages) |-> p]
           /\ \/ batch = <<>>
              \/ /\ flushes # <<>>
                 /\ flushes[Len(flushes)] = Flush(batch, TRUE, Len(pages) + 1)
           /\ \A i \in 1..Len(flushes) :
                  flushes[i].at = Len(pages) + 1 => (flushes[i].ok /\ i = Len(flushes))
           /\ NothingPending

\* C19 witness: the snapshot was attempted after two pages, an insert inside
\* the pages and the insert after the page loop.
C19_Witness ==
    /\ snapshots = 1
    /\ Len(pages) = 2
    /\ Len(flushes) = 2
    /\ flushes[1].at <= 2
    /\ flushes[2] = Flush(batch, TRUE, 3)

\* C20: within one process_pdf run, a failed insert committing nothing, no
\* record is committed twice: the records the run has committed are pairwise
\* different and each is a record the run built, also when an insert that
\* failed inside a page is followed by later inserts of the same file.
C20_NoRecordCommittedTwice ==
    status # "none" =>
        /\ \A i, j \in 1..Len(Committed) : i < j => Committed[i] # Committed[j]
        /\ \A i \in 1..Len(Committed) : \E k \in 1..Len(made) : made[k] = Committed[i]
        /\ \A i, j \in 1..Len(made) : i < j => made[i] # made[j]

\* C20 witness: an insert failed inside a page, a later insert of the same
\* file took the records of the failed one along with a new one, and a
\* further insert followed.
C20_Witness ==
    /\ Len(flushes) = 3
    /\ ~flushes[1].ok /\ flushes[2].ok /\ flushes[3].ok
    /\ flushes[1].at = 1
    /\ IsPrefix(flushes[1].batch, flushes[2].batch)
    /\ Len(Committed) = Len(flushes[2].batch) + Len(flushes[3].batch)

----------------------------------------------------------------------------
\* _chunk_text called on its own

\* The words a text is written from: one or two runs of letters.
Words ==
    { <<Run(c, n)>> : c \in {"a", "b"}, n \in 1..MaxWordLen }
        \cup { <<Run("a", 1), Run("b", 1)>> }

WordLists == UNION { [1..n -> Words] : n \in 0..MaxWords }

RECURSIVE join_spaces(_, _)
\* The words ws written one after the other with k spaces between them.
join_spaces(ws, k) ==
    IF ws = <<>> THEN <<>>
    ELSE IF Len(ws) = 1 THEN ws[1]
    ELSE ws[1] \o <<Run(" ", k)>> \o join_spaces(Tail(ws), k)

\* A text holding the words ws: tight, with single spaces between the words,
\* or loose, with double spaces between them and a space before and after.
WriteText(ws, loose) ==
    IF ~loose THEN join_spaces(ws, 1)
    ELSE IF ws = <<>> THEN <<Run(" ", 2)>>
    ELSE <<Run(" ", 1)>> \o join_spaces(ws, 2) \o <<Run(" ", 1)>>

ChunkInit ==
    /\ pdf_files = <<>>
    /\ batch_size = 1
    /\ db = <<>>
    /\ WalkStart
    /\ NoSearchCall
    /\ \E ws \in WordLists, loose \in BOOLEAN :
          /\ call_words = ws
          /\ call_text = WriteText(ws, loose)
    /\ max_size \in 0..MaxChunkSize
    /\ segments = <<>>
    /\ chunk_called = FALSE

\* segments = self._chunk_text(text, max_size)
ChunkCall ==
    /\ ~chunk_called
    /\ segments' = chunk_text(call_text, max_size)
    /\ chunk_called' = TRUE
    /\ UNCHANGED <<walkvars, call_words, call_text, max_size, searchvars>>

ChunkNext == ChunkCall

ChunkSpec == ChunkInit /\ [][ChunkNext]_vars

RECURSIVE WordsOf(_)
\* The words of a list of segments, read segment by segment.
WordsOf(segs) ==
    IF segs = <<>> THEN <<>> ELSE split(segs[1]) \o WordsOf(Tail(segs))

\* C12: the words of the segments _chunk_text returns, read segment by
\* segment, are the whitespace-delimited words of the text, in order.
C12_ChunkKeepsWords ==
    /\ split(call_text) = call_words
    /\ chunk_called => WordsOf(segments) = call_words

\* C12 witness: a text of three words came back as two segments, one of
\* them holding two words.
C12_Witness ==
    /\ chunk_called
    /\ Len(call_words) = 3
    /\ Len(segments) = 2
    /\ \E i \in 1..2 : Len(split(segments[i])) = 2

\* The value of current_size when segment number i was closed: the length
\* of the segment, plus one for the first segment when its first word was
\* counted from 0 (len(word) + 1) rather than set by the reset (len(word)).
CounterAtClose(i) ==
    str_len(segments[i])
        + (IF i = 1 /\ str_len(call_words[1]) + 1 <= max_size THEN 1 ELSE 0)

\* C13: every segment is at most max_size long (its words plus one
\* separator between neighbours) unless it is one single word longer than
\* max_size; and for every segment but the last, the size counter at its
\* close plus the next word and its separator is over max_size.
C13_SegmentsBoundedAndMaximal ==
    chunk_called =>
        /\ \A i \in 1..Len(segments) :
               \/ str_len(segments[i]) <= max_size
               \/ /\ Len(split(segments[i])) = 1
                  /\ str_len(segments[i]) > max_size
        /\ \A i \in 1..(Len(segments) - 1) :
               CounterAtClose(i) + str_len(split(segments[i + 1])[1]) + 1 > max_size

\* C13 witness: a word longer than max_size came back as a segment of its
\* own, followed by a segment of two words.
C13_Witness ==
    /\ chunk_called
    /\ Len(segments) = 2
    /\ str_len(segments[1]) > max_size
    /\ Len(split(segments[2])) = 2

\* C14: an empty or whitespace-only text gives no segment; no segment is
\* ever empty or blank; a first word longer than max_size is the first
\* segment, whole.
C14_NoEmptySegment ==
    chunk_called =>
        /\ IsBlank(call_text) => segments = <<>>
        /\ \A i \in 1..Len(segments) : ~IsBlank(segments[i])
        /\ (call_words # <<>> /\ str_len(call_words[1]) > max_size) =>
               (segments # <<>> /\ segments[1] = call_words[1])

\* C14 witness: the first of several words is longer than max_size and is
\* the first segment.
C14_Witness ==
    /\ chunk_called
    /\ Len(call_words) > 1
    /\ max_size > 0
    /\ str_len(call_words[1]) > max_size
    /\ segments[1] = call_words[1]

----------------------------------------------------------------------------
\* SearchEngine: search and get_document_count called on their own
\*
\* certainty, min_score and relevance_score are fixed-point numbers in
\* units of 0.00001: 70000 is 0.7 and 7000000 is 70.0.

\* Bound of the search calls: limit.
MaxLimit == 2

Queries == {"", "pdf"}

\* Values of certainty and of min_score.  None of them times 100 lies half
\* way between two hundredths.
Certainties == {0, 69996, 70000, 70004, 100000}
MinScores == {0, 70000, 70004, 100000}

\* What .do() raises when the backend cannot be reached or refuses.
BackendErrors == {"ConnectionError", "UnexpectedStatusCodeException"}

\* The k-th record of the backend's answer: its requested properties.
StoredDocument(k) == Document(<<Run("a", k)>>, k, FileName(1), k)

\* A record of the answer: "ok", without its '_additional' entry, with a
\* null certainty, or without its 'content' entry.
RecordShapes == {"ok", "no_additional", "null_certainty", "no_content"}

Hit(k, certainty, shape) ==
    [properties |-> StoredDocument(k), certainty |-> certainty, shape |-> shape]

\* The record lists of at most n records.
HitLists(n) ==
    UNION { { [k \in 1..m |-> Hit(k, f[k][1], f[k][2])] :
                  f \in [1..m -> Certainties \X RecordShapes] } : m \in 0..n }

\* What the near-text query with .with_limit(n) does: it raises, or answers
\* without 'data', with a null 'data', with a null data.Get.Document, or
\* with a list of at most n records.
SearchResponses(n) ==
    { [raises |-> e, shape |-> "none"] : e \in BackendErrors \cup {"KeyboardInterrupt"} }
        \cup { [raises |-> "None", shape |-> sh] : sh \in {"no_data", "null_data", "null_list"} }
        \cup { [raises |-> "None", shape |-> "list", records |-> h] : h \in HitLists(n) }

\* The values data.Aggregate.Document[0].meta.count can hold.
CountValues ==
    { [type |-> "int", val |-> n] : n \in 0..MaxLimit }
        \cup { [type |-> "NoneType", val |-> 0] }

\* What the aggregate query does: it raises, or answers without 'data', with
\* a null 'data', with a null or an empty data.Aggregate.Document, with an
\* entry without 'meta', or with a count.
CountResponses ==
    { [raises |-> e, shape |-> "none"] : e \in BackendErrors \cup {"KeyboardInterrupt"} }
        \cup { [raises |-> "None", shape |-> sh] :
                   sh \in {"no_data", "null_data", "null_list", "empty_list", "no_meta"} }
        \cup { [raises |-> "None", shape |-> "count", count |-> c] : c \in CountValues }

RECURSIVE Pow10(_)
Pow10(n) == IF n = 0 THEN 1 ELSE 10 * Pow10(n - 1)

\* round(number, ndigits) of a non-negative number: to the nearest multiple
\* of 10^-ndigits, a half going to the even neighbour.
round(number, ndigits) ==
    LET step == Pow10(5 - ndigits)
        q == number \div step
        r == number % step
    IN  IF 2 * r > step \/ (2 * r = step /\ q % 2 = 1)
        THEN (q + 1) * step
        ELSE q * step

\* if certainty > min_score
meets_min_score_Strict(certainty, min) == certainty > min

\* if certainty >= min_score
meets_min_score(certainty, min) == certainty >= min

\* The dictionary appended to formatted_results.
formatted_result(r) ==
    [content |-> r.properties.content,
     page_number |-> r.properties.page_number,
     file_name |-> r.properties.file_name,
     chunk_number |-> r.properties.chunk_number,
     relevance_score |-> round(r.certainty * 100, 2)]

RECURSIVE format_loop(_, _, _)
\* for r in results: the list built, or the exception a read raises.
\* r['content'] is read only for a record that passes the filter.
format_loop(results, min, formatted_results) ==
    IF results = <<>> THEN [raised |-> "None", value |-> formatted_results]
    ELSE LET r == results[1]
         IN  IF r.shape = "no_additional" THEN [raised |-> "KeyError"]
             ELSE IF r.shape = "null_certainty" THEN [raised |-> "TypeError"]
             ELSE IF meets_min_score(r.certainty, min)
                  THEN IF r.shape = "no_content" THEN [raised |-> "KeyError"]
                       ELSE format_loop(Tail(results), min,
                                        Append(formatted_results, formatted_result(r)))
                  ELSE format_loop(Tail(results), min, formatted_results)

\* try: ... except Exception: return fallback
TryExcept(body, fallback) ==
    IF body.raised = "None"
    THEN [called |-> TRUE, raised |-> "None", value |-> body.value]
    ELSE IF CatchesException(body.raised)
         THEN [called |-> TRUE, raised |-> "None", value |-> fallback]
         ELSE [called |-> TRUE, raised |-> body.raised]

\* SearchEngine.search
search(q, lim, min, response) ==
    TryExcept(IF response.raises # "None" THEN [raised |-> response.raises]
              ELSE IF response.shape = "no_data" THEN [raised |-> "KeyError"]
              ELSE IF response.shape \in {"null_data", "null_list"}
                   THEN [raised |-> "TypeError"]
              ELSE format_loop(response.records, min, <<>>),
              <<>>)

\* The integer 0.
Zero == [type |-> "int", val |-> 0]

\* SearchEngine.get_document_count
get_document_count(response) ==
    TryExcept(IF response.raises # "None" THEN [raised |-> response.raises]
              ELSE IF response.shape \in {"no_data", "no_meta"} THEN [raised |-> "KeyError"]
              ELSE IF response.shape \in {"null_data", "null_list"}
                   THEN [raised |-> "TypeError"]
              ELSE IF response.shape = "empty_list" THEN [raised |-> "IndexError"]
              ELSE [raised |-> "None", value |-> response.count],
              Zero)

SearchInit ==
    /\ pdf_files = <<>>
    /\ batch_size = 1
    /\ db = <<>>
    /\ WalkStart
    /\ NoChunkCall
    /\ \/ /\ op = "search"
          /\ query \in Queries
          /\ limit \in 1..MaxLimit
          /\ min_score \in MinScores
          /\ backend_response \in SearchResponses(limit)
       \/ /\ op = "get_document_count"
          /\ query = ""
          /\ limit = 0
          /\ min_score = 0
          /\ backend_response \in CountResponses
    /\ search_ret = NotCalled
    /\ count_ret = NotCalled

\* search_ret = engine.search(query, limit, min_score)
Search ==
    /\ op = "search" /\ ~search_ret.called
    /\ search_ret' = search(query, limit, min_score, backend_response)
    /\ UNCHANGED <<walkvars, chunkvars, op, query, limit, min_score,
                   backend_response, count_ret>>

\* count_ret = engine.get_document_count()
GetDocumentCount ==
    /\ op = "get_document_count" /\ ~count_ret.called
    /\ count_ret' = get_document_count(backend_response)
    /\ UNCHANGED <<walkvars, chunkvars, op, query, limit, min_score,
                   backend_response, search_ret>>

SearchNext == Search \/ GetDocumentCount

SearchSpec == SearchInit /\ [][SearchNext]_vars

\* The backend answered the search with a list of records that all hold
\* what was asked for.
WellFormed(response) ==
    /\ response.raises = "None"
    /\ response.shape = "list"
    /\ \A k \in 1..Len(response.records) : response.records[k].shape = "ok"

\* The records of the answer whose certainty is at least min_score, in the
\* answer's order.
Kept == SelectSeq(backend_response.records, LAMBDA r : r.certainty >= min_score)

\* search returned the records of Kept, one result each, in order, with the
\* certainty as a percentage to within half a hundredth.
ReturnsTheKept ==
    /\ search_ret.raised = "None"
    /\ Len(search_ret.value) = Len(Kept)
    /\ \A i \in 1..Len(Kept) :
           LET res == search_ret.value[i]
               diff == res.relevance_score - Kept[i].certainty * 100
           IN  /\ res.content = Kept[i].properties.content
               /\ res.page_number = Kept[i].properties.page_number
               /\ res.file_name = Kept[i].properties.file_name
               /\ res.chunk_number = Kept[i].properties.chunk_number
               /\ 2 * diff <= 1000 /\ 2 * diff >= -1000

\* C15 as stated: search returns exactly the records with certainty >=
\* min_score, in the backend's order, at most limit of them, and none with a
\* relevance_score below min_score * 100.
C15_Original ==
    (op = "search" /\ search_ret.called /\ WellFormed(backend_response)) =>
        /\ ReturnsTheKept
        /\ Len(search_ret.value) <= limit
        /\ \A i \in 1..Len(search_ret.value) :
               search_ret.value[i].relevance_score >= min_score * 100

\* C15: search returns exactly the records with certainty >= min_score, in
\* the backend's order, at most limit of them, and none with a
\* relevance_score below min_score * 100 rounded to two decimals.
C15_SearchFilters ==
    (op = "search" /\ search_ret.called /\ WellFormed(backend_response)) =>
        /\ ReturnsTheKept
        /\ Len(search_ret.value) <= limit
        /\ \A i \in 1..Len(search_ret.value) :
               search_ret.value[i].relevance_score >= round(min_score * 100, 2)

\* C15 witness: of two records the first was dropped and the second, whose
\* certainty is min_score, came back with a relevance_score under
\* min_score * 100.
C15_Witness ==
    /\ op = "search" /\ search_ret.called /\ WellFormed(backend_response)
    /\ Len(backend_response.records) = 2
    /\ backend_response.records[2].certainty = min_score
    /\ Len(search_ret.value) = 1
    /\ search_ret.value[1].page_number = 2
    /\ search_ret.value[1].relevance_score < min_score * 100

----------------------------------------------------------------------------
\* Errors of the SearchEngine calls

\* The backend failed, or its answer is not the one asked for.
Malformed(response) ==
    \/ response.raises \in BackendErrors
    \/ /\ response.raises = "None"
       /\ \/ response.shape \notin {"list", "count"}
          \/ /\ response.shape = "list"
             /\ \E k \in 1..Len(response.records) : response.records[k].shape # "ok"
          \/ /\ response.shape = "count"
             /\ response.count.type # "int"

\* The backend failed, or a read of the operation on its answer fails: a
\* part of the path is absent or null, a record has no certainty, or a
\* record that passes the filter has no content.
ReadFails(response, min) ==
    \/ response.raises \in BackendErrors
    \/ /\ response.raises = "None"
       /\ \/ response.shape \notin {"list", "count"}
          \/ /\ response.shape = "list"
             /\ \E k \in 1..Len(response.records) :
                    LET r == response.records[k]
                    IN  \/ r.shape \in {"no_additional", "null_certainty"}
                        \/ r.shape = "no_content" /\ r.certainty >= min

\* The call under way has returned, and how.
Returned == IF op = "search" THEN search_ret ELSE count_ret

\* The call returned its fallback: the empty list, or 0.
ReturnedFallback ==
    /\ Returned.raised = "None"
    /\ Returned.value = (IF op = "search" THEN <<>> ELSE Zero)

\* No exception left the call, but for a cancellation.
NoErrorRaised ==
    \/ Returned.raised = "None"
    \/ Returned.raised = "KeyboardInterrupt" /\ backend_response.raises = "KeyboardInterrupt"

\* C16 as stated: on any backend error or malformed answer search returns
\* the empty list and get_document_count returns 0, and no error is raised.
C16_Original ==
    Returned.called =>
        /\ NoErrorRaised
        /\ Malformed(backend_response) => ReturnedFallback

\* C16: on any backend error, and on any answer on which a read of the
\* operation fails, search returns the empty list and get_document_count
\* returns 0; no error is raised to the caller.
C16_ErrorsGiveFallback ==
    Returned.called =>
        /\ NoErrorRaised
        /\ ReadFails(backend_response, min_score) => ReturnedFallback

\* C16 witness: the second record of the answer has no certainty, and the
\* first, which passes the filter, is not returned either.
C16_Witness ==
    /\ op = "search" /\ search_ret.called
    /\ backend_response.raises = "None" /\ backend_response.shape = "list"
    /\ Len(backend_response.records) = 2
    /\ backend_response.records[1].shape = "ok"
    /\ backend_response.records[1].certainty >= min_score
    /\ backend_response.records[2].shape = "no_additional"
    /\ search_ret.raised = "None" /\ search_ret.value = <<>>

====
